---- MODULE Spec2Model ----
(***************************************************************************)
(* Model of src/app.py: the /outfit-image request handler (outfit_image),  *)
(* its seven download tasks (fetch_outfit_image) running on the shared     *)
(* ThreadPoolExecutor, and the compositing geometry.                       *)
(*                                                                         *)
(* Python strings are modelled as sequences of decimal digits where their  *)
(* content matters (outfit identifiers and prefixes), None by the token    *)
(* NoneVal.  Python floats are IEEE doubles; the only float expressions of *)
(* the program have the shape int(a * (n / d)) and are modelled exactly by *)
(* IntMulQuot below.                                                       *)
(***************************************************************************)
EXTENDS Integers, Sequences, FiniteSets, TLC

VARIABLES
    key,         \* request.args.get('key')
    uid,         \* request.args.get('uid')
    pc,          \* position of outfit_image
    response,    \* what outfit_image returned
    http,        \* number of outbound HTTP calls issued so far
    equipped,    \* the EquippedOutfit list the info API holds for the uid
    outfit_ids,  \* EquippedOutfit list of the player data
    used_ids,    \* the set shared by the seven tasks
    nsub,        \* len(futures)
    queue,       \* the executor's FIFO work queue
    others,      \* workers busy with tasks of other requests
    tstate,      \* per slot: position of fetch_outfit_image
    tpos,        \* per slot: index of the list entry being examined
    matched,     \* per slot: the local variable matched
    result,      \* per slot: the future's result
    mode,        \* BACKGROUND_MODE
    bg,          \* background_image.size
    fit,         \* new_w, new_h, offset_x, offset_y
    canvas,      \* the paste calls made on the canvas, in order
    cidx         \* idx of the paste loop

vars == <<key, uid, pc, response, http, equipped, outfit_ids, used_ids, nsub,
          queue, others, tstate, tpos, matched, result, mode, bg, fit, canvas,
          cidx>>

(***************************************************************************)
(* Bounds of the model.                                                    *)
(***************************************************************************)
MaxLen == 2
MaxRaceLen == 1
BgStep == 10
MaxBgUnits == 100
MaxOthersDone == 3

(***************************************************************************)
(* Configuration (src/app.py lines 9-19).                                  *)
(***************************************************************************)
MaxWorkers == 10
API_KEY == "star"
CanvasW == 800
CanvasH == 800
BACKGROUND_MODE == "cover"
NoneVal == "<None>"

(***************************************************************************)
(* Strings of digits.                                                      *)
(***************************************************************************)
RECURSIVE Str(_)
Str(n) == IF n < 10 THEN <<n>> ELSE Append(Str(n \div 10), n % 10)

StartsWith(s, p) == Len(s) >= Len(p) /\ SubSeq(s, 1, Len(p)) = p

Slots == 0..6

required_starts ==
    [i \in Slots |->
        <<  <<2,1,1>>, <<2,1,4>>, <<2,1,1>>, <<2,0,3>>,
            <<2,0,4>>, <<2,0,5>>, <<2,0,3>>  >>[i + 1]]

fallback_ids ==
    [i \in Slots |->
        <<  Str(211000000), Str(214000000), Str(208000000), Str(203000000),
            Str(204000000), Str(205000000), Str(212000000)  >>[i + 1]]

positions ==
    [i \in Slots |->
        <<  [x |-> 350, y |-> 30,  height |-> 150, width |-> 150],
            [x |-> 575, y |-> 130, height |-> 150, width |-> 150],
            [x |-> 665, y |-> 350, height |-> 150, width |-> 150],
            [x |-> 575, y |-> 550, height |-> 150, width |-> 150],
            [x |-> 350, y |-> 654, height |-> 150, width |-> 150],
            [x |-> 135, y |-> 570, height |-> 150, width |-> 150],
            [x |-> 135, y |-> 130, height |-> 150, width |-> 150]  >>[i + 1]]

(***************************************************************************)
(* IEEE-754 double arithmetic of the expressions int(a * (n / d)), for     *)
(* integers a >= 0, n >= 1, d >= 1 with a * n below 2^31.                  *)
(*                                                                         *)
(* q = n / d is rounded to 53 significant bits: with 2^e <= n/d < 2^(e+1)  *)
(* and k = 52 - e, q = m * 2^-k where m is n * 2^k / d rounded to nearest, *)
(* ties to even.  a * q is rounded again and int() truncates.  When a*n/d  *)
(* is no integer its distance to the next integer (at least 1/d) exceeds   *)
(* both rounding errors, so the result is the exact floor.  When a*n/d is  *)
(* an integer K the result is K - 1 exactly when q was rounded down by     *)
(* rem / d units (rem = n * 2^k mod d) and a * rem / (d * 2^k) exceeds     *)
(* half the gap between K and the double below it.                         *)
(***************************************************************************)
Max(a, b) == IF a >= b THEN a ELSE b

RECURSIVE Log2Up(_, _, _)
Log2Up(n, d, e) == IF d * 2^(e + 1) <= n THEN Log2Up(n, d, e + 1) ELSE e

RECURSIVE Log2Down(_, _, _)
Log2Down(n, d, t) == IF n * 2^t < d THEN Log2Down(n, d, t + 1) ELSE 0 - t

\* the largest e with 2^e <= n / d
FloorLog2(n, d) == IF n >= d THEN Log2Up(n, d, 0) ELSE Log2Down(n, d, 1)

\* n * 2^k mod m, for m below 2^21
RECURSIVE Pow2Mod(_, _, _)
Pow2Mod(n, k, m) ==
    IF k = 0 THEN n % m
    ELSE IF k >= 10 THEN (1024 * Pow2Mod(n, k - 10, m)) % m
    ELSE (2 * Pow2Mod(n, k - 1, m)) % m

\* r2 = n * 2^k mod 2d: n / d is rounded to 53 bits downwards by rem / d
\* units (the result is rem), or upwards or not at all (the result is 0)
RoundedDownBy(r2, d) ==
    IF 2 * (r2 % d) > d \/ (2 * (r2 % d) = d /\ r2 >= d) THEN 0 ELSE r2 % d

\* a * (n / d) is rounded to a double below the integer K = a * n / d
\* (the quantifiers over one-element sets name the values of e, j and rem)
RoundsBelow(a, n, d, K) ==
    \E e \in {FloorLog2(n, d)}, j \in {FloorLog2(K, 1)} :
        \E rem \in {RoundedDownBy(Pow2Mod(n, 52 - e, 2 * d), d)} :
            /\ rem > 0
            /\ a * rem * 4 > d * 2^((IF K = 2^j THEN j - e - 2 ELSE j - e - 1) + 2)

IntMulQuot(a, n, d) ==
    IF a = 0 THEN 0
    ELSE IF (a * n) % d # 0 THEN (a * n) \div d
    ELSE IF RoundsBelow(a, n, d, (a * n) \div d) THEN (a * n) \div d - 1
    ELSE (a * n) \div d

(***************************************************************************)
(* Background fitting, lines 104-117 (CANVAS_SIZE is (800, 800), so the    *)
(* branch of line 97 is never taken).  scale is kept as the quotient it is *)
(* computed from: max and min of two doubles commute with rounding.        *)
(***************************************************************************)
ScaleQuot(bg_w, bg_h, m) ==
    LET byW == <<CanvasW, bg_w>>
        byH == <<CanvasH, bg_h>>
        wGeH == CanvasW * bg_h >= CanvasH * bg_w
    IN  IF m = "contain"
        THEN (IF wGeH THEN byH ELSE byW)
        ELSE (IF wGeH THEN byW ELSE byH)

\* lines 114-115
Centered(new_w, new_h) ==
    [new_w |-> new_w, new_h |-> new_h,
     offset_x |-> (CanvasW - new_w) \div 2,
     offset_y |-> (CanvasH - new_h) \div 2]

FitBackground(bg_w, bg_h, m) ==
    LET sc    == ScaleQuot(bg_w, bg_h, m)
        new_w == Max(1, IntMulQuot(bg_w, sc[1], sc[2]))
        new_h == Max(1, IntMulQuot(bg_h, sc[1], sc[2]))
    IN  Centered(new_w, new_h)

(***************************************************************************)
(* Per-slot remapping, lines 139-143, with scale_x = new_w / bg_w and      *)
(* scale_y = new_h / bg_h of lines 116-117.                                *)
(***************************************************************************)
PasteX(pos, f, bg_w) == f.offset_x + IntMulQuot(pos.x, f.new_w, bg_w)

PasteY(pos, f, bg_h) == f.offset_y + IntMulQuot(pos.y, f.new_h, bg_h)

\* mutant: line 142 without the scaling
PasteWUnscaled(pos, f, bg_w) == pos.width

PasteW(pos, f, bg_w) == Max(1, IntMulQuot(pos.width, f.new_w, bg_w))

PasteH(pos, f, bg_h) == Max(1, IntMulQuot(pos.height, f.new_h, bg_h))

SlotRect(pos, f, b) ==
    [paste_x |-> PasteX(pos, f, b[1]), paste_y |-> PasteY(pos, f, b[2]),
     paste_w |-> PasteW(pos, f, b[1]), paste_h |-> PasteH(pos, f, b[2])]

(***************************************************************************)
(* Inputs: the request arguments, the third-party API's answers and the    *)
(* local background file.                                                  *)
(***************************************************************************)
Keys == {API_KEY, "wrong", NoneVal}

Uids == {"12345678", "", NoneVal}

OutfitIdPool == {211000000, 211045001, 203000000, 203031001}

\* identifiers that compete for the two slots of prefix 211; the first is
\* also the fallback of slot 0
RaceIdPool == {211000000, 211045001}

ListsUpTo(pool, len) == UNION {[1..n -> pool] : n \in 0..len}

BgDims == {BgStep * u : u \in 1..MaxBgUnits}

\* the sizes the background file has in the full request specifications
BgSizes == {<<BgStep * MaxBgUnits, BgStep * (MaxBgUnits - 1)>>}

NoResponse == [status |-> 0, body |-> "none"]

NoFit == [new_w |-> 0, new_h |-> 0, offset_x |-> 0, offset_y |-> 0]

(***************************************************************************)
(* The worker pool, line 9: at most MaxWorkers tasks run at a time, taken  *)
(* from the work queue in submission order.                                *)
(***************************************************************************)
Running == {i \in Slots : tstate[i] \in {"check", "add", "http"}}

Busy == others + Cardinality(Running)

WorkerFree == Busy < MaxWorkers

Task(i) == [req |-> "self", idx |-> i]

OtherTask == [req |-> "other", idx |-> 0]

(***************************************************************************)
(* fetch_outfit_image, lines 65-79.                                        *)
(***************************************************************************)
\* mutant: the test of line 72 without its used_ids part
EligibleIgnoringUsed(str_oid, code, used) == StartsWith(str_oid, code)

\* line 72
Eligible(str_oid, code, used) == StartsWith(str_oid, code) /\ str_oid \notin used

\* the next index at or after from whose entry starts with code (0: none);
\* the entries skipped read no shared state
RECURSIVE NextCandidate(_, _, _)
NextCandidate(ids, code, from) ==
    IF from > Len(ids) THEN 0
    ELSE IF StartsWith(Str(ids[from]), code) THEN from
    ELSE NextCandidate(ids, code, from + 1)

\* the loop reaches entry k (k > 0), or ends without a match and line 77
\* takes the fallback and line 79 starts the download
ScanTo(i, k) ==
    IF k > 0
    THEN /\ tstate' = [tstate EXCEPT ![i] = "check"]
         /\ tpos' = [tpos EXCEPT ![i] = k]
         /\ UNCHANGED <<matched, http>>
    ELSE /\ tstate' = [tstate EXCEPT ![i] = "http"]
         /\ tpos' = [tpos EXCEPT ![i] = 0]
         /\ matched' = [matched EXCEPT ![i] = fallback_ids[i]]
         /\ http' = http + 1

\* a worker takes the task from the queue and runs it up to its first read
\* of used_ids
Start(i) ==
    /\ queue # <<>>
    /\ Head(queue) = Task(i)
    /\ WorkerFree
    /\ queue' = Tail(queue)
    /\ ScanTo(i, NextCandidate(outfit_ids, required_starts[i], 1))
    /\ UNCHANGED <<equipped, key, uid, pc, response, outfit_ids, used_ids,
                   nsub, others, result, mode, bg, fit, canvas, cidx>>

\* line 72 on entry tpos[i]: the test reads used_ids
Check(i) ==
    /\ tstate[i] = "check"
    /\ LET str_oid == Str(outfit_ids[tpos[i]])
       IN  IF Eligible(str_oid, required_starts[i], used_ids)
           THEN /\ tstate' = [tstate EXCEPT ![i] = "add"]
                /\ matched' = [matched EXCEPT ![i] = str_oid]
                /\ UNCHANGED <<tpos, http>>
           ELSE ScanTo(i, NextCandidate(outfit_ids, required_starts[i], tpos[i] + 1))
    /\ UNCHANGED <<equipped, key, uid, pc, response, outfit_ids, used_ids,
                   nsub, queue, others, result, mode, bg, fit, canvas, cidx>>

\* lines 74-79: used_ids.add, break, the download starts
Add(i) ==
    /\ tstate[i] = "add"
    /\ used_ids' = used_ids \cup {matched[i]}
    /\ tstate' = [tstate EXCEPT ![i] = "http"]
    /\ http' = http + 1
    /\ UNCHANGED <<equipped, key, uid, pc, response, outfit_ids, nsub, queue,
                   others, tpos, matched, result, mode, bg, fit, canvas,
                   cidx>>

\* mutant: the HTTP call of line 34 without its timeout never returns
DownloadWithoutTimeout(i) ==
    /\ tstate[i] = "http"
    /\ UNCHANGED vars

\* fetch_and_process_image, lines 32-41: an image, or None on any failure
Download(i) ==
    /\ tstate[i] = "http"
    /\ \E r \in {"img", NoneVal} : result' = [result EXCEPT ![i] = r]
    /\ tstate' = [tstate EXCEPT ![i] = "done"]
    /\ UNCHANGED <<equipped, key, uid, pc, response, http, outfit_ids,
                   used_ids, nsub, queue, others, tpos, matched, mode, bg,
                   fit, canvas, cidx>>

(***************************************************************************)
(* Tasks of other requests on the same pool.                               *)
(***************************************************************************)
OtherStart ==
    /\ queue # <<>>
    /\ Head(queue) = OtherTask
    /\ WorkerFree
    /\ queue' = Tail(queue)
    /\ others' = others + 1
    /\ UNCHANGED <<equipped, key, uid, pc, response, http, outfit_ids,
                   used_ids, nsub, tstate, tpos, matched, result, mode, bg,
                   fit, canvas, cidx>>

\* tasks of other requests that have finished since the request arrived;
\* MaxWorkers + 1 of them were running or queued then
OthersDone ==
    (MaxWorkers + 1) - (others + Cardinality({n \in 1..Len(queue) : queue[n] = OtherTask}))

OtherFinish ==
    /\ others > 0
    /\ OthersDone < MaxOthersDone
    /\ others' = others - 1
    /\ UNCHANGED <<equipped, key, uid, pc, response, http, outfit_ids,
                   used_ids, nsub, queue, tstate, tpos, matched, result, mode,
                   bg, fit, canvas, cidx>>

(***************************************************************************)
(* outfit_image, lines 44-152.                                             *)
(***************************************************************************)
\* mutant: line 48 rejecting only a missing key
KeyOkWhenPresent(k) == k # NoneVal

\* line 48
KeyOk(k) == k = API_KEY

\* line 51: not uid
UidGiven(u) == u # NoneVal /\ u # ""

Reply(status, body) ==
    /\ response' = [status |-> status, body |-> body]
    /\ pc' = "done"

\* lines 45-52
Validate ==
    /\ pc = "recv"
    /\ IF ~KeyOk(key) THEN Reply(401, "Invalid or missing API key")
       ELSE IF ~UidGiven(uid) THEN Reply(400, "Missing uid parameter")
       ELSE pc' = "fetch" /\ UNCHANGED response
    /\ UNCHANGED <<equipped, key, uid, http, outfit_ids, used_ids, nsub,
                   queue, others, tstate, tpos, matched, result, mode, bg,
                   fit, canvas, cidx>>

\* lines 54-63 with fetch_player_info, lines 21-30: one outbound call that
\* fails (None) or answers with the player's EquippedOutfit list
FetchPlayerInfo ==
    /\ pc = "fetch"
    /\ http' = http + 1
    /\ \E ok \in BOOLEAN :
          IF ok
          THEN /\ outfit_ids' = equipped
               /\ pc' = "submit"
               /\ UNCHANGED response
          ELSE /\ Reply(500, "Failed to fetch player info")
               /\ UNCHANGED outfit_ids
    /\ UNCHANGED <<equipped, key, uid, used_ids, nsub, queue, others, tstate,
                   tpos, matched, result, mode, bg, fit, canvas, cidx>>

\* lines 82-83, one iteration: executor.submit(fetch_outfit_image, idx, code)
Submit ==
    /\ pc = "submit"
    /\ queue' = Append(queue, Task(nsub))
    /\ tstate' = [tstate EXCEPT ![nsub] = "queued"]
    /\ nsub' = nsub + 1
    /\ pc' = IF nsub + 1 = Cardinality(Slots) THEN "openbg" ELSE "submit"
    /\ UNCHANGED <<equipped, key, uid, response, http, outfit_ids, used_ids,
                   others, tpos, matched, result, mode, bg, fit, canvas,
                   cidx>>

\* lines 86-94: the background file opens with some size, or the handler
\* returns the error of line 90 (no such file) or of line 92 (any other
\* failure)
OpenBackground ==
    /\ pc = "openbg"
    /\ \E outcome \in {"opened", "missing", "broken"} :
          IF outcome = "opened"
          THEN /\ \E size \in BgSizes : bg' = size
               /\ pc' = "compose"
               /\ UNCHANGED response
          ELSE /\ Reply(500, IF outcome = "missing"
                             THEN "Background image not found"
                             ELSE "Failed to open background image")
               /\ UNCHANGED bg
    /\ UNCHANGED <<equipped, key, uid, http, outfit_ids, used_ids, nsub,
                   queue, others, tstate, tpos, matched, result, mode, fit,
                   canvas, cidx>>

BackgroundPaste(f, b) ==
    [kind |-> "background", slot |-> 0,
     pos  |-> [x |-> 0, y |-> 0, height |-> b[2], width |-> b[1]],
     rect |-> [paste_x |-> f.offset_x, paste_y |-> f.offset_y,
               paste_w |-> f.new_w, paste_h |-> f.new_h]]

\* lines 96-121
ComposeBackground ==
    /\ pc = "compose"
    /\ \E f \in {FitBackground(bg[1], bg[2], mode)} :
          fit' = f /\ canvas' = <<BackgroundPaste(f, bg)>>
    /\ cidx' = 0
    /\ pc' = "collect"
    /\ UNCHANGED <<equipped, key, uid, response, http, outfit_ids, used_ids,
                   nsub, queue, others, tstate, tpos, matched, result, mode,
                   bg>>

\* mutant: line 136 reading the future without waiting for the task
FutureNoWait(i) == tstate[i] # "none"

\* line 136: future.result() returns once the task has finished
FutureDone(i) == tstate[i] = "done"

\* mutant: the paste loop without the test of line 137
TruthyAlways(img) == TRUE

\* line 137: not outfit_img
Truthy(img) == img # NoneVal

\* line 139
PositionOf(idx) == positions[idx]

SlotPaste(idx) ==
    [kind |-> "slot", slot |-> idx, pos |-> PositionOf(idx),
     rect |-> SlotRect(PositionOf(idx), fit, bg)]

\* lines 135-146, one iteration
Collect ==
    /\ pc = "collect"
    /\ cidx < nsub
    /\ FutureDone(cidx)
    /\ canvas' = IF Truthy(result[cidx]) THEN Append(canvas, SlotPaste(cidx))
                 ELSE canvas
    /\ cidx' = cidx + 1
    /\ UNCHANGED <<equipped, key, uid, pc, response, http, outfit_ids,
                   used_ids, nsub, queue, others, tstate, tpos, matched,
                   result, mode, bg, fit>>

\* lines 148-152
Respond ==
    /\ pc = "collect"
    /\ cidx = nsub
    /\ Reply(200, "image/png")
    /\ UNCHANGED <<equipped, key, uid, http, outfit_ids, used_ids, nsub,
                   queue, others, tstate, tpos, matched, result, mode, bg,
                   fit, canvas, cidx>>

(***************************************************************************)
(* Specifications.                                                         *)
(***************************************************************************)
Fresh ==
    /\ pc = "recv"
    /\ response = NoResponse
    /\ http = 0
    /\ outfit_ids = <<>>
    /\ used_ids = {}
    /\ nsub = 0
    /\ tstate = [i \in Slots |-> "none"]
    /\ tpos = [i \in Slots |-> 0]
    /\ matched = [i \in Slots |-> <<>>]
    /\ result = [i \in Slots |-> "pending"]
    /\ mode = BACKGROUND_MODE
    /\ bg = <<0, 0>>
    /\ fit = NoFit
    /\ canvas = <<>>
    /\ cidx = 0

\* one request arrives at an idle pool
Init ==
    /\ key \in Keys
    /\ uid \in Uids
    /\ equipped \in ListsUpTo(RaceIdPool, MaxRaceLen)
    /\ queue = <<>>
    /\ others = 0
    /\ Fresh

Handler == Validate \/ FetchPlayerInfo \/ Submit \/ OpenBackground
              \/ ComposeBackground \/ Collect \/ Respond

Worker(i) == Start(i) \/ Check(i) \/ Add(i) \/ Download(i)

Next == Handler \/ \E i \in Slots : Worker(i)

Spec == Init /\ [][Next]_vars

\* one request arrives while every worker runs a task of another request
\* and one more such task waits in the queue
InitPool ==
    /\ key \in Keys
    /\ uid \in Uids
    /\ equipped \in {<<211000000, 211045001>>}
    /\ queue = <<OtherTask>>
    /\ others = MaxWorkers
    /\ Fresh

NextPool == Next \/ OtherStart \/ OtherFinish

\* every thread that can take a step eventually takes one, and every HTTP
\* call returns or times out (IMAGE_TIMEOUT, line 15)
Fairness ==
    /\ WF_vars(Handler)
    /\ \A i \in Slots : WF_vars(Worker(i))
    /\ WF_vars(OtherStart)
    /\ WF_vars(OtherFinish)

SpecPool == InitPool /\ [][NextPool]_vars /\ Fairness

\* one request arrives while all workers but one are busy with long-running
\* tasks of other requests: its tasks run one after another, in slot order
InitSerial ==
    /\ key \in Keys
    /\ uid \in Uids
    /\ equipped \in ListsUpTo(OutfitIdPool, MaxLen)
    /\ queue = <<>>
    /\ others = MaxWorkers - 1
    /\ Fresh

SpecSerial == InitSerial /\ [][Next]_vars

\* the compositing of lines 94-152 for all background sizes and both modes,
\* from the point where the background is open and the downloads are done
InitGeom ==
    /\ key = API_KEY
    /\ uid = "12345678"
    /\ pc = "compose"
    /\ response = NoResponse
    /\ http = 8
    /\ equipped = <<>>
    /\ outfit_ids = <<>>
    /\ used_ids = {}
    /\ nsub = 7
    /\ queue = <<>>
    /\ others = 0
    /\ tstate = [i \in Slots |-> "done"]
    /\ tpos = [i \in Slots |-> 0]
    /\ matched = fallback_ids
    /\ result = [i \in Slots |-> "img"]
    /\ mode \in {"cover", "contain"}
    /\ bg \in BgDims \X BgDims
    /\ fit = NoFit
    /\ canvas = <<>>
    /\ cidx = 0

NextGeom == ComposeBackground \/ Collect \/ Respond

SpecGeom == InitGeom /\ [][NextGeom]_vars

(***************************************************************************)
(* Properties.                                                             *)
(***************************************************************************)
Chosen(i) == tstate[i] \in {"http", "done"}

\* the slots that have selected their identifier selected it as choice says
ChosenAgreeWith(choice) ==
    \A i \in Slots : Chosen(i) => matched[i] = choice[i + 1]

Outstanding(i) == tstate[i] \in {"queued", "check", "add", "http"}

SlotEntries == {n \in 1..Len(canvas) : canvas[n].kind = "slot"}

PastedSlots == {canvas[n].slot : n \in SlotEntries}

\* the responses of lines 90 and 92
BackgroundError(r) ==
    /\ r.status = 500
    /\ r.body \in {"Background image not found", "Failed to open background image"}

\* fetch_outfit_image's matching (lines 66-77) run to completion for the
\* slots i, i + 1, ..., 6 one after another, starting from the set used
RECURSIVE FirstEligible(_, _, _, _)
FirstEligible(ids, code, used, from) ==
    IF from > Len(ids) THEN 0
    ELSE IF Eligible(Str(ids[from]), code, used) THEN from
    ELSE FirstEligible(ids, code, used, from + 1)

RECURSIVE SerialRun(_, _, _)
SerialRun(ids, i, used) ==
    IF i \notin Slots THEN <<>>
    ELSE LET k == FirstEligible(ids, required_starts[i], used, 1)
             m == IF k > 0 THEN Str(ids[k]) ELSE fallback_ids[i]
         IN  <<m>> \o SerialRun(ids, i + 1, IF k > 0 THEN used \cup {m} ELSE used)

\* C1: under every interleaving of the seven tasks each slot selects the
\* identifier it selects when the tasks run one after another in slot order.
C1_ChoiceIndependentOfInterleaving ==
    ChosenAgreeWith(SerialRun(outfit_ids, 0, {}))

\* C2: a request that passed validation, got its player info and opened the
\* background ends with the PNG response, seven submitted tasks, and exactly
\* the slots whose download returned an image pasted, once each, at their
\* own entry of the positions table.
C2_SuccessfulSlotsPastedOnce ==
    (pc = "done" /\ bg # <<0, 0>>) =>
        /\ response = [status |-> 200, body |-> "image/png"]
        /\ nsub = 7
        /\ \A i \in Slots : tstate[i] = "done"
        /\ PastedSlots = {i \in Slots : result[i] = "img"}
        /\ Cardinality(SlotEntries) = Cardinality(PastedSlots)
        /\ \A n \in SlotEntries :
              /\ canvas[n].pos = positions[canvas[n].slot]
              /\ canvas[n].rect = SlotRect(positions[canvas[n].slot], fit, bg)

C2_Witness ==
    /\ pc = "done"
    /\ response.status = 200
    /\ result[0] = NoneVal
    /\ result[3] = NoneVal
    /\ PastedSlots = {1, 2, 4, 5, 6}

\* C3: the background is the first paste, every slot image is pasted after
\* its own download task has completed, and slot images are pasted in
\* increasing slot order.
C3_DownloadThenDrawInSlotOrder ==
    \A n \in 1..Len(canvas) :
        /\ (n = 1) <=> (canvas[n].kind = "background")
        /\ n > 1 => /\ canvas[n].kind = "slot"
                    /\ tstate[canvas[n].slot] = "done"
                    /\ result[canvas[n].slot] = "img"
        /\ n > 2 => canvas[n - 1].slot < canvas[n].slot

\* slot 0 is pasted and the paste loop waits for slot 1 although the task of
\* slot 6 completed before it
C3_Witness ==
    /\ Len(canvas) = 2
    /\ canvas[2].slot = 0
    /\ cidx = 1
    /\ tstate[1] = "http"
    /\ tstate[6] = "done"

\* C4: in cover mode the resized background covers the canvas and both
\* offsets are <= 0; in contain mode it fits inside the canvas and both
\* offsets are >= 0.
C4_CoverCoversContainFits ==
    (fit # NoFit) =>
        IF mode = "cover"
        THEN /\ fit.new_w >= CanvasW /\ fit.new_h >= CanvasH
             /\ fit.offset_x <= 0 /\ fit.offset_y <= 0
        ELSE /\ fit.new_w <= CanvasW /\ fit.new_h <= CanvasH
             /\ fit.offset_x >= 0 /\ fit.offset_y >= 0

\* the identifiers of the list that start with code, in list order, each once
RECURSIVE DistinctMatching(_, _, _)
DistinctMatching(ids, code, seen) ==
    IF ids = <<>> THEN <<>>
    ELSE LET s == Str(Head(ids))
         IN  IF StartsWith(s, code) /\ s \notin seen
             THEN <<s>> \o DistinctMatching(Tail(ids), code, seen \cup {s})
             ELSE DistinctMatching(Tail(ids), code, seen)

\* what the claim assigns to the slots i, ..., 6, given the identifiers
\* assigned to the slots before i
RECURSIVE SlotOrderChoices(_, _)
SlotOrderChoices(i, earlier) ==
    IF i \notin Slots THEN <<>>
    ELSE LET cands == {k \in 1..Len(outfit_ids) :
                          /\ StartsWith(Str(outfit_ids[k]), required_starts[i])
                          /\ Str(outfit_ids[k]) \notin earlier}
             mine  == IF cands = {} THEN fallback_ids[i]
                      ELSE Str(outfit_ids[CHOOSE k \in cands : \A l \in cands : k <= l])
         IN  <<mine>> \o SlotOrderChoices(i + 1, earlier \cup {mine})

\* C5: when the tasks run in slot order, slot i gets the first identifier of
\* the list that starts with required_starts[i] and is not assigned to an
\* earlier slot, else fallback_ids[i]; the two slots of a shared prefix get
\* the first and the second distinct matching identifier.
C5_SlotOrderMatching ==
    /\ ChosenAgreeWith(SlotOrderChoices(0, {}))
    /\ \A p \in {<<0, 2>>, <<3, 6>>} :
          LET dm == DistinctMatching(outfit_ids, required_starts[p[1]], {})
          IN  /\ (Chosen(p[1]) /\ Len(dm) >= 1) => matched[p[1]] = dm[1]
              /\ (Chosen(p[2]) /\ Len(dm) >= 2) => matched[p[2]] = dm[2]

C5_Witness ==
    /\ \A i \in Slots : tstate[i] = "done"
    /\ outfit_ids = <<211045001, 211000000>>
    /\ matched[0] = Str(211045001)
    /\ matched[2] = Str(211000000)
    /\ matched[6] = fallback_ids[6]

\* C6: a slot whose rectangle lies inside the original background is pasted
\* into a rectangle inside the resized background's rectangle on the canvas.
C6_SlotsStayOnBackground ==
    \A n \in SlotEntries :
        LET pos == canvas[n].pos
            r   == canvas[n].rect
        IN  (pos.x + pos.width <= bg[1] /\ pos.y + pos.height <= bg[2]) =>
                /\ fit.offset_x <= r.paste_x
                /\ r.paste_x + r.paste_w <= fit.offset_x + fit.new_w
                /\ fit.offset_y <= r.paste_y
                /\ r.paste_y + r.paste_h <= fit.offset_y + fit.new_h

\* all seven slots lie inside the background and are pasted, the background
\* being shrunk in one direction
C6_Witness ==
    /\ Len(canvas) = 8
    /\ \A i \in Slots : /\ positions[i].x + positions[i].width <= bg[1]
                        /\ positions[i].y + positions[i].height <= bg[2]
    /\ fit.new_w < bg[1]
    /\ mode = "contain"

\* C7: every response is returned only when no download task of the request
\* is still queued or running.
C7_NoResponseWhileOutstanding ==
    (response # NoResponse) => \A i \in Slots : ~Outstanding(i)

\* C7 amended: every response other than the two background-open errors of
\* lines 90 and 92 is returned only when no download task of the request is
\* queued or running.
C7_OnlyBackgroundErrorLeavesTasks ==
    (response # NoResponse /\ ~BackgroundError(response)) =>
        \A i \in Slots : ~Outstanding(i)

C7_Witness ==
    /\ response.status = 200
    /\ \A i \in Slots : tstate[i] = "done"

\* C8: the identifiers whose images are requested for the seven slots of a
\* request are pairwise distinct.
C8_RequestedIdsDistinct ==
    \A i, j \in Slots :
        (i # j /\ Chosen(i) /\ Chosen(j)) => matched[i] # matched[j]

C10_EveryRequestAnswered ==
    <>[](pc = "done" /\ \A i \in Slots : ~Outstanding(i))

\* the handler waits in future.result() for a task that is still queued
\* behind a saturated pool
C10_Witness ==
    /\ pc = "collect"
    /\ cidx \in Slots
    /\ tstate[cidx] = "queued"
    /\ Busy = MaxWorkers
    /\ others > 0

====
